---- MODULE Spec2Model ----
(***************************************************************************)
(* The push-notification pipeline of the nutrition backend:                *)
(*   WebPushService        (utils/webpush.js: the subscription registry,   *)
(*                          its snapshot file, the per-user fan-out)       *)
(*   NotificationScheduler (utils/notificationScheduler.js: the quiet-hours*)
(*                          gate, sendNotificationToUser, the bulk send,   *)
(*                          the audit log)                                 *)
(* Node runs every handler on one thread: a handler runs without           *)
(* interruption up to its next `await` of file or network I/O, so each     *)
(* action below is one such synchronous stretch of code.                   *)
(***************************************************************************)
EXTENDS Integers, Sequences, FiniteSets, TLC

VARIABLES
    subscriptions,  \* WebPushService.subscriptions: the Map, as its entries in insertion order
    snapshotFile,   \* data/webpush-subscriptions.json
    pendingWrites,  \* fs.writeFile calls of saveSubscriptions still in flight, oldest first
    loadPending,    \* the loadSubscriptions() call of module load has not yet read the file
    usersFile,      \* data/users.json
    logsFile,       \* data/notification_logs.json
    sends,          \* the sendNotificationToUser calls in flight, by number of the call
    started,        \* number of sendNotificationToUser calls made so far
    bulk,           \* the sendBulkNotification call
    gone,           \* history: <<userId, endpoint>> answered 410 and not subscribed again since
    event,          \* history: the registry operation the last step performed, and its result
    ops,            \* number of calls from outside (registry calls, sends, restarts) so far
    probe,          \* input and result of one isInQuietHours evaluation
    rules,          \* the firings of the scheduled rules, by number of the firing
    cron,           \* the process and its cron tasks: up or down, the ticks so far
    http            \* request and response of one controller call

vars == <<subscriptions, snapshotFile, pendingWrites, loadPending, usersFile,
          logsFile, sends, started, bulk, gone, event, ops, probe, rules, cron, http>>

----------------------------------------------------------------------------
(* Bounds of the model *)

MaxOps == 2         \* calls from outside in one run: subscribe, unsubscribe,
                    \* unsubscribeAll, sendNotificationToUser, a process restart
MaxBulk == 3        \* longest userIds list given to sendBulkNotification
MaxTicks == 2       \* minutes of the clock that pass in one behaviour
MaxFirings == 2     \* firings of rules in one behaviour
MaxLogs == 3        \* records in notification_logs.json when a history is asked for

(* The numeric ids of users.json; an id reaches the registry as the number *)
(* (user.id in the scheduler, a JSON number in a body) or as a string (a   *)
(* JSON string in a body, a route parameter).                              *)
UserIds == {1, 2}
Num(n) == <<"number", n>>
Str(n) == <<"string", n>>
Keys == {Num(n) : n \in UserIds} \cup {Str(n) : n \in UserIds}

Endpoints == {"e1", "e2"}
KeyMaterial == {"ka", "kb"}
Subscription == [endpoint : Endpoints, keys : KeyMaterial]

(* What the callers of the registry pass in *)
Callers == {Num(1), Str(1)}
Offered == {[endpoint |-> "e1", keys |-> "ka"], [endpoint |-> "e1", keys |-> "kb"],
            [endpoint |-> "e2", keys |-> "ka"]}

(* What webpush.sendNotification answers: delivered, rejected with status *)
(* 410 ("gone"), rejected with another status                             *)
Outcomes == {"ok", "gone", "error"}

----------------------------------------------------------------------------
(* The Map: new Map(), has, get, set, delete *)

MapHas(m, k) == \E i \in 1..Len(m) : m[i].key = k

MapGet(m, k) == m[CHOOSE i \in 1..Len(m) : m[i].key = k].val

MapSet(m, k, v) ==
    IF MapHas(m, k)
    THEN [i \in 1..Len(m) |-> IF m[i].key = k THEN [key |-> k, val |-> v] ELSE m[i]]
    ELSE Append(m, [key |-> k, val |-> v])

MapDelete(m, k) == SelectSeq(m, LAMBDA en : en.key # k)

(* getSubscriptions: this.subscriptions.get(userId) || [] *)
getSubscriptions(m, k) == IF MapHas(m, k) THEN MapGet(m, k) ELSE <<>>

----------------------------------------------------------------------------
(* The snapshot: Object.fromEntries, JSON.stringify, JSON.parse,           *)
(* Object.entries, new Map                                                 *)

(* A property key is a string: String(1) = "1" *)
ToPropertyKey(k) == Str(k[2])

LastIndexOf(m, pk) ==
    CHOOSE i \in 1..Len(m) :
        /\ ToPropertyKey(m[i].key) = pk
        /\ \A j \in 1..Len(m) : ToPropertyKey(m[j].key) = pk => j <= i

(* Integer-like property names are enumerated in ascending numeric order *)
AscendingKeys(S) ==
    CHOOSE s \in [1..Cardinality(S) -> S] :
        \A i, j \in 1..Cardinality(S) : i < j => s[i][2] < s[j][2]

(* Object.fromEntries(this.subscriptions): a later entry overwrites an     *)
(* earlier one of the same property name. JSON.stringify and JSON.parse    *)
(* keep such an object (string keys, arrays of JSON-born subscriptions).   *)
ObjectFromEntries(m) ==
    LET ks == AscendingKeys({ToPropertyKey(m[i].key) : i \in 1..Len(m)})
    IN  [i \in 1..Len(ks) |-> [key |-> ks[i], val |-> m[LastIndexOf(m, ks[i])].val]]

(* new Map(Object.entries(parsed)) *)
MapFromObject(obj) == [i \in 1..Len(obj) |-> [key |-> obj[i].key, val |-> obj[i].val]]

(* The file: missing, written ("ok") or torn. History: the run of the      *)
(* process that wrote it, the call whose save wrote it and the list that   *)
(* call left its user with.                                                *)
NoFile == [state |-> "missing", data |-> <<>>, run |-> "earlier",
           op |-> "none", user |-> Num(1), list |-> <<>>]
TornFile == [NoFile EXCEPT !.state = "torn"]

----------------------------------------------------------------------------
(* Times and the quiet-hours gate *)

(* A stored time of day is the string "HH:MM", here <<h, m>>; <<>> is a   *)
(* missing field, undefined or the empty string; <<n>> is a JSON number,   *)
(* which updatePreferences stores as it comes.                             *)
Missing == <<>>
Falsy(v) == v = <<>> \/ v = <<0>>
IsTimeString(v) == Len(v) = 2

(* timeToMinutes: timeStr.split(':').map(Number), hours * 60 + minutes *)
timeToMinutes(timeStr) == timeStr[1] * 60 + timeStr[2]

(* a comparison that leaves out the two ends of the window *)
InWindowStrict(currentTime, startTime, endTime) ==
    IF startTime <= endTime
    THEN currentTime > startTime /\ currentTime < endTime
    ELSE currentTime > startTime \/ currentTime < endTime

(* The comparison of isInQuietHours on the three minute counts *)
InWindow(currentTime, startTime, endTime) ==
    IF startTime <= endTime
    THEN currentTime >= startTime /\ currentTime <= endTime
    ELSE currentTime >= startTime \/ currentTime <= endTime

(* isInQuietHours(quietHours) at currentTime = getHours() * 60 + getMinutes(); *)
(* quietHours is <<>> (undefined) or <<[start, end]>>                      *)
isInQuietHours(quietHours, currentTime) ==
    IF quietHours = <<>> \/ Falsy(quietHours[1].start) \/ Falsy(quietHours[1].end)
    THEN FALSE
    ELSE InWindow(currentTime,
                  timeToMinutes(quietHours[1].start),
                  timeToMinutes(quietHours[1].end))

(* timeStr.split is not a function: a truthy start or end that is no string *)
QuietHoursThrows(quietHours) ==
    /\ quietHours # <<>>
    /\ ~Falsy(quietHours[1].start)
    /\ ~Falsy(quietHours[1].end)
    /\ (~IsTimeString(quietHours[1].start) \/ ~IsTimeString(quietHours[1].end))

(* db.findOne('users.json', { id: userId }): item.id !== query.id is the   *)
(* strict comparison, and the ids of users.json are numbers                *)
findOne(file, userId) ==
    LET hits == SelectSeq(file, LAMBDA item : Num(item.id) = userId)
    IN  IF hits = <<>> THEN <<>> ELSE <<hits[1]>>

(* The quietHours the gate of sendNotificationToUser looks at: <<>> when   *)
(* the user, its notificationPreferences or its quietHours is absent       *)
GateWindow(file, userId) ==
    LET user == findOne(file, userId)
    IN  IF user = <<>> THEN <<>>
        ELSE IF user[1].prefs = <<>> THEN <<>>
        ELSE user[1].prefs[1].quietHours

(* a gate that never closes *)
GateNeverActive(file, userId, currentTime) == FALSE

(* quietHours && this.isInQuietHours(quietHours) *)
GateActive(file, userId, currentTime) ==
    isInQuietHours(GateWindow(file, userId), currentTime)

(* The try/catch around the body of sendNotificationToUser logs the error  *)
(* and returns: nothing reaches the caller                                 *)
Propagates(threw) == FALSE

----------------------------------------------------------------------------
(* The registry operations on the Map *)

HasEndpoint(list, endpoint) == \E i \in 1..Len(list) : list[i].endpoint = endpoint

(* a lookup that compares the whole subscription, not its endpoint *)
ExistsWholeSubscription(existingSubs, subscription) ==
    \E i \in 1..Len(existingSubs) : existingSubs[i] = subscription

(* a lookup that never finds the subscription *)
ExistsNever(existingSubs, subscription) == FALSE

(* existingSubs.some(sub => sub.endpoint === subscription.endpoint) *)
Exists(existingSubs, subscription) ==
    \E i \in 1..Len(existingSubs) : existingSubs[i].endpoint = subscription.endpoint

(* a filter that keeps the endpoint and drops the others *)
FilterInverted(userSubs, endpoint) ==
    SelectSeq(userSubs, LAMBDA sub : sub.endpoint = endpoint)

(* userSubs.filter(sub => sub.endpoint !== endpoint) *)
Filter(userSubs, endpoint) ==
    SelectSeq(userSubs, LAMBDA sub : sub.endpoint # endpoint)

(* unsubscribeUser up to its await: the Map it leaves *)
UnsubscribedMap(m, userId, endpoint) ==
    IF MapHas(m, userId)
    THEN MapSet(m, userId, Filter(MapGet(m, userId), endpoint))
    ELSE m

(* unsubscribeUser: the value it returns *)
UnsubscribeResult(m, userId, endpoint) ==
    /\ MapHas(m, userId)
    /\ Len(Filter(MapGet(m, userId), endpoint)) < Len(MapGet(m, userId))


(* saveSubscriptions up to await fs.writeFile: the data is built from the  *)
(* Map as it is at the call                                                *)
WriteOf(m, op, userId, owner) ==
    [data |-> ObjectFromEntries(m), owner |-> owner,
     op |-> op, user |-> userId, list |-> getSubscriptions(m, userId)]

(* A fan-out holds the array it read from the Map. subscribeUser pushes    *)
(* onto the array the Map holds, so a fan-out still holding that array     *)
(* sees the push; unsubscribeUser, unsubscribeAll and loadSubscriptions    *)
(* put other arrays in the Map and the fan-out keeps the old one.          *)
PushLive(ss, userId, subscription) ==
    [i \in DOMAIN ss |->
        IF ss[i].user = userId /\ ss[i].live
        THEN [ss[i] EXCEPT !.arr = Append(@, subscription)]
        ELSE ss[i]]

Detach(ss, userId) ==
    [i \in DOMAIN ss |->
        IF ss[i].user = userId THEN [ss[i] EXCEPT !.live = FALSE] ELSE ss[i]]

DetachAll(ss) == [i \in DOMAIN ss |-> [ss[i] EXCEPT !.live = FALSE]]

NoEvent == [op |-> "none", user |-> Num(1), endpoint |-> "", keys |-> "", result |-> FALSE,
            send |-> 0, now |-> <<>>, note |-> ""]

----------------------------------------------------------------------------
(* sendNotificationToUser and WebPushService.sendNotification *)

NewSend(userId) ==
    [user |-> userId, pc |-> "findUser",
     arr |-> <<>>, live |-> FALSE, idx |-> 0, K |-> 0, tried |-> <<>>,
     sent |-> 0, failed |-> 0, errors |-> <<>>, logData |-> <<>>]

(* The for...of over the array: the next element, read at the array's     *)
(* length of that moment, or the return of results into logNotification    *)
Advance(rec) ==
    IF rec.idx + 1 <= Len(rec.arr)
    THEN [rec EXCEPT !.idx = @ + 1, !.pc = "push",
                     !.tried = Append(@, rec.arr[rec.idx + 1].endpoint)]
    ELSE [rec EXCEPT !.idx = 0, !.pc = "logRead", !.arr = <<>>, !.live = FALSE]

(* sendNotification from its entry to the first await: no entry in the Map *)
(* returns { sent: 0, failed: 0 }, else the array is read and iterated     *)
FanOut(rec, m) ==
    IF ~MapHas(m, rec.user)
    THEN [rec EXCEPT !.pc = "logRead"]
    ELSE Advance([rec EXCEPT !.arr = MapGet(m, rec.user), !.live = TRUE,
                             !.K = Len(MapGet(m, rec.user))])

(* a catch block that counts the failure and keeps no entry of it *)
CountedWithoutEntry(rec, outcome) ==
    IF outcome = "ok" THEN [rec EXCEPT !.sent = @ + 1] ELSE [rec EXCEPT !.failed = @ + 1]

(* a catch block that swallows the failure without recording it *)
CountedSilently(rec, outcome) ==
    IF outcome = "ok" THEN [rec EXCEPT !.sent = @ + 1] ELSE rec

(* What the catch block and the counters make of one push's outcome *)
Counted(rec, outcome) ==
    IF outcome = "ok"
    THEN [rec EXCEPT !.sent = @ + 1]
    ELSE [rec EXCEPT !.failed = @ + 1,
                     !.errors = Append(@, [endpoint |-> rec.arr[rec.idx].endpoint,
                                           error |-> outcome])]

----------------------------------------------------------------------------
(* The scheduled rules: sendMorningReminders .. sendNutritionTips *)

RuleNames == {"morning", "lunch", "dinner", "water", "evening", "weekly", "tips"}

(* What a rule does for one user, in the order of its code: the preference *)
(* flag it tests, whether it reads the user's food logs first (await       *)
(* db.find), and the type of the notification it sends                     *)
Part(flag, metrics, kind) == [flag |-> flag, metrics |-> metrics, kind |-> kind]

Parts(rule) ==
    CASE rule = "morning" -> <<Part("mealReminders", FALSE, "meal_reminder"),
                               Part("nutritionTips", FALSE, "nutrition_tip")>>
      [] rule = "lunch"   -> <<Part("mealReminders", FALSE, "meal_reminder")>>
      [] rule = "dinner"  -> <<Part("mealReminders", FALSE, "meal_reminder")>>
      [] rule = "water"   -> <<Part("waterReminders", FALSE, "water_reminder")>>
      [] rule = "evening" -> <<Part("dailySummary", TRUE, "daily_summary")>>
      [] rule = "weekly"  -> <<Part("weeklySummary", TRUE, "weekly_summary")>>
      [] rule = "tips"    -> <<Part("nutritionTips", FALSE, "nutrition_tip")>>

(* a test that leaves out the users who have no preferences *)
WantsOnlyWithPreferences(user, flag) ==
    user.prefs # <<>> /\ flag \notin user.prefs[1].off

(* preferences = user.notificationPreferences || {};                       *)
(* preferences[flag] !== false. off holds the flags stored as false.       *)
Wants(user, flag) == user.prefs = <<>> \/ flag \notin user.prefs[1].off

(* a readFile that lets the error of a failed read through *)
ReadThrowsOnFailure(ok) == ~ok

(* db.readFile catches the error of a failed read and returns []; db.find  *)
(* filters what readFile returned                                          *)
ReadThrows(ok) == FALSE

(* A firing walks the users in file order and, for each user, the parts of *)
(* its rule; step k = (i - 1) * Len(parts) + j is part j for user i.       *)
StepUser(rec, k) == ((k - 1) \div Len(Parts(rec.rule))) + 1
StepPart(rec, k) == ((k - 1) % Len(Parts(rec.rule))) + 1
Steps(rec) == 1..(Len(rec.users) * Len(Parts(rec.rule)))

StepWanted(rec, k) ==
    Wants(rec.users[StepUser(rec, k)], Parts(rec.rule)[StepPart(rec, k)].flag)

(* The next step after k whose flag test passes, 0 when the loop ends *)
NextStep(rec, k) ==
    LET later == {n \in Steps(rec) : n > k /\ StepWanted(rec, n)}
    IN  IF later = {} THEN 0 ELSE CHOOSE n \in later : \A o \in later : n <= o

(* The firing goes on after step k, up to its next await: db.find for a    *)
(* part that reads metrics, else sendNotificationToUser(user.id, ...),     *)
(* which is call nextSend; or the loop ends. dispatched is history.        *)
Dispatch(rec, k, nextSend) ==
    [rec EXCEPT !.pc = "await", !.k = k, !.cur = nextSend,
                !.dispatched = Append(@, k)]

(* a loop that spins after its last user instead of returning *)
RuleNeverDone(rec, k, nextSend) ==
    LET n == NextStep(rec, k)
    IN  IF n = 0 THEN [rec EXCEPT !.pc = "spin", !.k = 0, !.cur = 0]
        ELSE IF Parts(rec.rule)[StepPart(rec, n)].metrics
        THEN [rec EXCEPT !.pc = "metrics", !.k = n, !.cur = 0]
        ELSE Dispatch(rec, n, nextSend)

RuleContinue(rec, k, nextSend) ==
    LET n == NextStep(rec, k)
    IN  IF n = 0 THEN [rec EXCEPT !.pc = "done", !.k = 0, !.cur = 0]
        ELSE IF Parts(rec.rule)[StepPart(rec, n)].metrics
        THEN [rec EXCEPT !.pc = "metrics", !.k = n, !.cur = 0]
        ELSE Dispatch(rec, n, nextSend)

(* The catch around the loop of a rule: the error is logged, the firing    *)
(* ends                                                                    *)
RuleCaught(rec) == [rec EXCEPT !.pc = "caught", !.cur = 0]

NewFiring(rule, now) ==
    [rule |-> rule, at |-> now, pc |-> "readUsers", users |-> <<>>, k |-> 0, cur |-> 0,
     dispatched |-> <<>>, failures |-> {}]

Awaiting(rs, s) == {r \in DOMAIN rs : rs[r].pc = "await" /\ rs[r].cur = s}

(* The process ends: a firing that has not ended never goes on *)
Killed(rs) ==
    [r \in DOMAIN rs |->
        IF rs[r].pc \in {"done", "caught"} THEN rs[r]
        ELSE [rs[r] EXCEPT !.pc = "dead", !.cur = 0]]

----------------------------------------------------------------------------
(* sendBulkNotification *)

(* sumSent, sumFailed and threw are history: the deliveries the users'     *)
(* sends counted, and the userIds whose send ended in its catch block      *)
NoBulk == [pc |-> "idle", userIds |-> <<>>, i |-> 0, cur |-> 0,
           total |-> 0, sent |-> 0, failed |-> 0, errors |-> <<>>,
           sumSent |-> 0, sumFailed |-> 0, threw |-> <<>>]

(* a bulk send that adds up the deliveries of the user's send *)
CountSentDeliveries(sent, rec) == sent + rec.sent

(* results.sent++ *)
CountSent(sent, rec) == sent + 1

(* The awaited sendNotificationToUser has settled: try counts the user as  *)
(* sent, catch as failed with the userId                                   *)
BulkCounted(b, rec, threw) ==
    LET userId == b.userIds[b.i]
        seen == [b EXCEPT !.sumSent = @ + rec.sent, !.sumFailed = @ + rec.failed,
                          !.threw = IF threw THEN Append(@, userId) ELSE @]
    IN  IF Propagates(threw)
        THEN [seen EXCEPT !.failed = @ + 1, !.errors = Append(@, userId)]
        ELSE [seen EXCEPT !.sent = CountSent(@, rec)]

(* for (const userId of userIds): the next userId, or return results *)
BulkContinue(b, nextSend) ==
    IF b.i < Len(b.userIds)
    THEN [b EXCEPT !.i = @ + 1, !.cur = nextSend]
    ELSE [b EXCEPT !.pc = "done", !.cur = 0]

(* Call s of sendNotificationToUser returns to whoever awaits it, and the  *)
(* caller goes on up to its next await: the loop of sendBulkNotification,  *)
(* the loop of a rule (an error that reached it would end it in its catch  *)
(* block), or the controller that called sendCustomNotification, which     *)
(* answers the request                                                     *)
Returned(ss, s, threw) ==
    LET rest == [i \in DOMAIN ss \ {s} |-> ss[i]]
        b2 == BulkContinue(BulkCounted(bulk, ss[s], threw), started + 1)
    IN  IF bulk.pc = "await" /\ bulk.cur = s
        THEN /\ bulk' = b2
             /\ sends' = IF b2.pc = "await"
                         THEN (started + 1 :> NewSend(b2.userIds[b2.i])) @@ rest
                         ELSE rest
             /\ started' = IF b2.pc = "await" THEN started + 1 ELSE started
             /\ UNCHANGED <<rules, http>>
        ELSE IF Awaiting(rules, s) # {}
        THEN LET r == CHOOSE r \in Awaiting(rules, s) : TRUE
                 seen == [rules[r] EXCEPT !.failures = IF threw THEN @ \cup {rules[r].k} ELSE @]
                 r2 == IF Propagates(threw) THEN RuleCaught(seen)
                       ELSE RuleContinue(seen, seen.k, started + 1)
             IN  /\ rules' = [rules EXCEPT ![r] = r2]
                 /\ sends' = IF r2.pc = "await"
                             THEN (started + 1 :> NewSend(Num(r2.users[StepUser(r2, r2.k)].id)))
                                  @@ rest
                             ELSE rest
                 /\ started' = IF r2.pc = "await" THEN started + 1 ELSE started
                 /\ UNCHANGED <<bulk, http>>
        ELSE IF http.call = "calorie" /\ http.pc = "await" /\ http.cur = s
        THEN /\ http' = [http EXCEPT !.pc = "done", !.cur = 0,
                                     !.status = IF Propagates(threw) THEN 500 ELSE 200]
             /\ sends' = rest
             /\ UNCHANGED <<bulk, started, rules>>
        ELSE /\ sends' = rest
             /\ UNCHANGED <<bulk, started, rules, http>>

(* results = { total: userIds.length, ... } and the first iteration up to  *)
(* await this.sendNotificationToUser                                       *)
BulkStart(userIds) ==
    /\ bulk.pc = "idle"
    /\ IF userIds = <<>>
       THEN /\ bulk' = [NoBulk EXCEPT !.pc = "done"]
            /\ UNCHANGED <<sends, started>>
       ELSE /\ bulk' = [NoBulk EXCEPT !.pc = "await", !.userIds = userIds, !.i = 1,
                                      !.cur = started + 1, !.total = Len(userIds)]
            /\ sends' = (started + 1 :> NewSend(userIds[1])) @@ sends
            /\ started' = started + 1
    /\ event' = NoEvent
    /\ UNCHANGED <<subscriptions, snapshotFile, pendingWrites, loadPending, usersFile,
                   logsFile, gone, ops, probe,
                   rules, cron, http>>

----------------------------------------------------------------------------
(* The registry calls *)

(* subscribeUser(userId, subscription) up to await this.saveSubscriptions() *)
Subscribe(userId, subscription) ==
    /\ ops < MaxOps
    /\ ops' = ops + 1
    /\ LET existingSubs == getSubscriptions(subscriptions, userId)
           exists == Exists(existingSubs, subscription)
           m1 == IF MapHas(subscriptions, userId) THEN subscriptions
                 ELSE MapSet(subscriptions, userId, <<>>)
           m2 == MapSet(m1, userId, Append(existingSubs, subscription))
       IN  /\ subscriptions' = IF exists THEN m1 ELSE m2
           /\ sends' = IF exists THEN sends ELSE PushLive(sends, userId, subscription)
           /\ pendingWrites' = IF exists THEN pendingWrites
                               ELSE Append(pendingWrites, WriteOf(m2, "subscribe", userId, 0))
           /\ event' = [NoEvent EXCEPT !.op = "subscribe", !.user = userId,
                                       !.endpoint = subscription.endpoint,
                                       !.keys = subscription.keys, !.result = ~exists]
    /\ gone' = gone \ {<<userId, subscription.endpoint>>}
    /\ UNCHANGED <<snapshotFile, loadPending, usersFile, logsFile, started, bulk, probe,
                   rules, cron, http>>

(* unsubscribeUser(userId, endpoint) up to await this.saveSubscriptions() *)
Unsubscribe(userId, endpoint) ==
    /\ ops < MaxOps
    /\ ops' = ops + 1
    /\ LET m2 == UnsubscribedMap(subscriptions, userId, endpoint)
           removed == UnsubscribeResult(subscriptions, userId, endpoint)
       IN  /\ subscriptions' = m2
           /\ sends' = IF MapHas(subscriptions, userId) THEN Detach(sends, userId) ELSE sends
           /\ pendingWrites' = IF removed
                               THEN Append(pendingWrites, WriteOf(m2, "unsubscribe", userId, 0))
                               ELSE pendingWrites
           /\ event' = [NoEvent EXCEPT !.op = "unsubscribe", !.user = userId,
                                       !.endpoint = endpoint, !.result = removed]
    /\ UNCHANGED <<snapshotFile, loadPending, usersFile, logsFile, started, bulk, gone,
                   probe,
                   rules, cron, http>>

(* unsubscribeAll(userId) up to await this.saveSubscriptions() *)
UnsubscribeAll(userId) ==
    /\ ops < MaxOps
    /\ ops' = ops + 1
    /\ LET has == MapHas(subscriptions, userId)
           m2 == MapDelete(subscriptions, userId)
       IN  /\ subscriptions' = m2
           /\ sends' = IF has THEN Detach(sends, userId) ELSE sends
           /\ pendingWrites' = IF has
                               THEN Append(pendingWrites, WriteOf(m2, "unsubscribeAll", userId, 0))
                               ELSE pendingWrites
           /\ event' = [NoEvent EXCEPT !.op = "unsubscribeAll", !.user = userId,
                                       !.result = has]
    /\ UNCHANGED <<snapshotFile, loadPending, usersFile, logsFile, started, bulk, gone,
                   probe,
                   rules, cron, http>>

----------------------------------------------------------------------------
(* The steps of one sendNotificationToUser call *)

(* now.getHours() * 60 + now.getMinutes() *)
currentTime(now) == now[1] * 60 + now[2]

(* A caller (a cron callback, sendCustomNotification) calls                *)
(* sendNotificationToUser, which runs up to await db.findOne               *)
SendStart(userId) ==
    /\ ops < MaxOps
    /\ ops' = ops + 1
    /\ started' = started + 1
    /\ sends' = (started + 1 :> NewSend(userId)) @@ sends
    /\ event' = NoEvent
    /\ UNCHANGED <<subscriptions, snapshotFile, pendingWrites, loadPending, usersFile,
                   logsFile, bulk, gone, probe,
                   rules, cron, http>>

(* db.findOne has answered: the quiet-hours check, which returns when the  *)
(* gate is active, then webPushService.sendNotification up to its first    *)
(* await. An exception of the check lands in the catch block at the end of *)
(* sendNotificationToUser, which returns as well.                          *)
SendGate(s, now) ==
    /\ s \in DOMAIN sends
    /\ sends[s].pc = "findUser"
    /\ LET quietHours == GateWindow(usersFile, sends[s].user)
           threw == QuietHoursThrows(quietHours)
           gated == ~threw /\ GateActive(usersFile, sends[s].user, currentTime(now))
       IN  /\ IF threw \/ gated
              THEN Returned(sends, s, threw)
              ELSE /\ sends' = [sends EXCEPT ![s] = FanOut(@, subscriptions)]
                   /\ UNCHANGED <<bulk, started, rules, http>>
           /\ event' = [NoEvent EXCEPT !.op = "gate", !.user = sends[s].user, !.send = s,
                                       !.now = now, !.result = gated,
                                       !.note = IF threw THEN "threw" ELSE ""]
    /\ UNCHANGED <<subscriptions, snapshotFile, pendingWrites, loadPending, usersFile,
                   logsFile, gone, ops, probe, cron>>

(* webpush.sendNotification has answered for arr[idx]: the counters, and   *)
(* on status 410 unsubscribeUser up to await this.saveSubscriptions()      *)
PushDone(s, outcome) ==
    /\ s \in DOMAIN sends
    /\ sends[s].pc = "push"
    /\ LET rec == Counted(sends[s], outcome)
           userId == rec.user
           endpoint == rec.arr[rec.idx].endpoint
           m2 == UnsubscribedMap(subscriptions, userId, endpoint)
           removed == UnsubscribeResult(subscriptions, userId, endpoint)
           others == IF MapHas(subscriptions, userId) THEN Detach(sends, userId) ELSE sends
       IN  IF outcome = "gone"
           THEN /\ subscriptions' = m2
                /\ sends' = [others EXCEPT ![s] =
                        IF removed
                        THEN [rec EXCEPT !.pc = "pruneSave", !.live = FALSE]
                        ELSE Advance([rec EXCEPT !.live = others[s].live])]
                /\ pendingWrites' = IF removed
                                    THEN Append(pendingWrites, WriteOf(m2, "prune", userId, s))
                                    ELSE pendingWrites
                /\ gone' = gone \cup {<<userId, endpoint>>}
                /\ event' = [NoEvent EXCEPT !.op = "prune", !.user = userId, !.send = s,
                                            !.endpoint = endpoint, !.result = removed]
           ELSE /\ sends' = [sends EXCEPT ![s] = Advance(rec)]
                /\ event' = NoEvent
                /\ UNCHANGED <<subscriptions, pendingWrites, gone>>
    /\ UNCHANGED <<snapshotFile, loadPending, usersFile, logsFile, started, bulk, ops,
                   probe,
                   rules, cron, http>>

(* a log that keeps no record of a send without deliveries *)
LoggedUnlessEmpty(logs, rec, s) ==
    IF rec.sent + rec.failed = 0 THEN logs
    ELSE Append(logs, [userId |-> rec.user, send |-> s, kind |-> "delivery",
                       sent |-> rec.sent, failed |-> rec.failed])

(* logs.push({ id, userId, ...notification, loggedAt }): the record holds   *)
(* the deliveryResult of the send                                          *)
Logged(logs, rec, s) ==
    Append(logs, [userId |-> rec.user, send |-> s, kind |-> "delivery",
                  sent |-> rec.sent, failed |-> rec.failed])

(* logNotification: db.readFile has answered, the record is pushed and     *)
(* db.writeFile is called with the whole list                              *)
LogRead(s) ==
    /\ s \in DOMAIN sends
    /\ sends[s].pc = "logRead"
    /\ sends' = [sends EXCEPT ![s] =
            [@ EXCEPT !.pc = "logWrite", !.logData = Logged(logsFile, sends[s], s)]]
    /\ event' = NoEvent
    /\ UNCHANGED <<subscriptions, snapshotFile, pendingWrites, loadPending, usersFile,
                   logsFile, started, bulk, gone, ops, probe,
                   rules, cron, http>>

(* db.writeFile has answered (an error is logged and swallowed);           *)
(* sendNotificationToUser returns                                          *)
LogWrite(s, written) ==
    /\ s \in DOMAIN sends
    /\ sends[s].pc = "logWrite"
    /\ logsFile' = IF written THEN sends[s].logData ELSE logsFile
    /\ Returned(sends, s, FALSE)
    /\ event' = NoEvent
    /\ UNCHANGED <<subscriptions, snapshotFile, pendingWrites, loadPending, usersFile,
                   gone, ops, probe, cron>>

----------------------------------------------------------------------------
(* The snapshot file *)

(* a save whose failed or torn write reaches the caller as an exception *)
SaveRejectsOnFailure(outcome) == outcome # "ok"

(* saveSubscriptions wraps fs.writeFile in try/catch: an error is logged,  *)
(* the promise the registry call awaits is fulfilled all the same          *)
SaveRejects(outcome) == FALSE

RemoveAt(seq, i) == [j \in 1..(Len(seq) - 1) |-> IF j < i THEN seq[j] ELSE seq[j + 1]]

(* The fs.writeFile of saveSubscriptions ends: written, failed (logged and *)
(* swallowed), or, with another write of the same file in flight, torn.    *)
(* The registry call that awaited the save returns true; a fan-out that    *)
(* awaited its prune goes on with the next element.                        *)
WriteDone(i, outcome) ==
    /\ i \in 1..Len(pendingWrites)
    /\ outcome = "torn" => Len(pendingWrites) > 1
    /\ LET w == pendingWrites[i]
       IN  /\ snapshotFile' =
                CASE outcome = "ok" ->
                        [state |-> "ok", data |-> w.data, run |-> "this",
                         op |-> w.op, user |-> w.user, list |-> w.list]
                  [] outcome = "fail" -> snapshotFile
                  [] outcome = "torn" -> [TornFile EXCEPT !.run = "this"]
           /\ sends' = IF w.owner = 0 THEN sends
                       ELSE [sends EXCEPT ![w.owner] = Advance(@)]
    /\ pendingWrites' = RemoveAt(pendingWrites, i)
    /\ event' = [NoEvent EXCEPT !.op = IF SaveRejects(outcome) THEN "saveThrew" ELSE "saved",
                                !.user = pendingWrites[i].user,
                                !.result = ~SaveRejects(outcome),
                                !.note = outcome]
    /\ UNCHANGED <<subscriptions, loadPending, usersFile, logsFile, started, bulk, gone,
                   ops, probe,
                   rules, cron, http>>

(* loadSubscriptions, called at module load: fs.readFile has answered; a   *)
(* missing or unparseable file gives a new Map                             *)
LoadSubscriptions ==
    /\ loadPending
    /\ loadPending' = FALSE
    /\ subscriptions' = IF snapshotFile.state = "ok"
                        THEN MapFromObject(snapshotFile.data)
                        ELSE <<>>
    /\ sends' = DetachAll(sends)
    /\ event' = NoEvent
    /\ UNCHANGED <<snapshotFile, pendingWrites, usersFile, logsFile, started, bulk, gone,
                   ops, probe,
                   rules, cron, http>>

(* The process ends and is started again: the files stay, everything in    *)
(* memory and in flight is gone, module load calls loadSubscriptions       *)
Restart ==
    /\ ops < MaxOps
    /\ ops' = ops + 1
    /\ subscriptions' = <<>>
    /\ pendingWrites' = <<>>
    /\ loadPending' = TRUE
    /\ sends' = <<>>
    /\ bulk' = IF bulk.pc = "await" THEN [bulk EXCEPT !.pc = "dead", !.cur = 0] ELSE bulk
    /\ gone' = {}
    /\ snapshotFile' = [snapshotFile EXCEPT !.run = "earlier"]
    /\ rules' = Killed(rules)
    /\ event' = NoEvent
    /\ UNCHANGED <<usersFile, logsFile, started, probe, cron, http>>

----------------------------------------------------------------------------
(* The cron tasks and the firings of the rules *)

(* The rules in the order initScheduler schedules them *)
RuleOrder == <<"morning", "lunch", "dinner", "water", "evening", "weekly", "tips">>

(* for (let hour = 9; hour <= 21; hour += 2) *)
WaterHours == {9, 11, 13, 15, 17, 19, 21}

(* The cron expressions: '0 8 * * *', '0 12 * * *', '0 18 * * *',          *)
(* `0 ${hour} * * *`, '0 20 * * *', '0 19 * * 0', '0 10|15|19 * * *';      *)
(* now is <<day of week, hour, minute>>                                    *)
Matches(rule, now) ==
    /\ now[3] = 0
    /\ CASE rule = "morning" -> now[2] = 8
         [] rule = "lunch"   -> now[2] = 12
         [] rule = "dinner"  -> now[2] = 18
         [] rule = "water"   -> now[2] \in WaterHours
         [] rule = "evening" -> now[2] = 20
         [] rule = "weekly"  -> now[2] = 19 /\ now[1] = 0
         [] rule = "tips"    -> now[2] \in {10, 15, 19}

(* a scheduler that makes up at start for what it missed *)
BackfillMissed(missed) == missed

(* initScheduler schedules its tasks from now on: cron.schedule is given   *)
(* no option to recover missed executions and nothing is kept of the last  *)
(* run                                                                     *)
Backfill(missed) == {}

(* a scheduler that lets a minute pass without running the tasks while a   *)
(* firing has not returned                                                 *)
FiringsWhenIdle(S, now) ==
    LET due == SelectSeq(RuleOrder, LAMBDA rule : rule \in S)
    IN  IF \E r \in DOMAIN rules : rules[r].pc \in {"readUsers", "metrics", "await"}
        THEN <<>>
        ELSE [n \in 1..Len(due) |-> NewFiring(due[n], now)]

(* The callbacks of the tasks in S run, each calling its rule's function;  *)
(* nothing looks at the firings that have not returned                     *)
Firings(S, now) ==
    LET due == SelectSeq(RuleOrder, LAMBDA rule : rule \in S)
    IN  [n \in 1..Len(due) |-> NewFiring(due[n], now)]

(* A minute passes. With the process up, the task of every rule whose     *)
(* expression matches runs its callback, which calls the rule's function;  *)
(* that runs up to await db.readFile('users.json').                        *)
Tick(now) ==
    /\ cron.ticks < MaxTicks
    /\ LET due == {rule \in cron.scheduled : Matches(rule, now)}
       IN  /\ cron.up => Len(rules) + Cardinality(due) <= MaxFirings
           /\ rules' = IF cron.up THEN rules \o Firings(due, now) ELSE rules
           /\ cron' = [cron EXCEPT
                  !.ticks = @ + 1,
                  !.seen = IF cron.up
                           THEN [rule \in RuleNames |->
                                    IF rule \in due THEN @[rule] + 1 ELSE @[rule]]
                           ELSE @,
                  !.missed = IF cron.up THEN @ ELSE @ \cup due]
    /\ event' = [NoEvent EXCEPT !.op = "tick", !.now = now]
    /\ UNCHANGED <<subscriptions, snapshotFile, pendingWrites, loadPending, usersFile,
                   logsFile, sends, started, bulk, gone, ops, probe, http>>

(* Firing r goes on as r2; when r2 awaits a send, that send has begun *)
RuleStepped(r, r2) ==
    /\ rules' = [rules EXCEPT ![r] = r2]
    /\ sends' = IF r2.pc = "await"
                THEN (started + 1 :> NewSend(Num(r2.users[StepUser(r2, r2.k)].id))) @@ sends
                ELSE sends
    /\ started' = IF r2.pc = "await" THEN started + 1 ELSE started

(* db.readFile('users.json') has answered the rule: the loop over the      *)
(* users begins and runs up to its first await                             *)
RuleUsersRead(r, ok) ==
    /\ r \in DOMAIN rules
    /\ rules[r].pc = "readUsers"
    /\ LET rec == [rules[r] EXCEPT !.users = IF ok THEN usersFile ELSE <<>>]
       IN  RuleStepped(r, IF ReadThrows(ok) THEN RuleCaught(rec)
                          ELSE RuleContinue(rec, 0, started + 1))
    /\ event' = NoEvent
    /\ UNCHANGED <<subscriptions, snapshotFile, pendingWrites, loadPending, usersFile,
                   logsFile, bulk, gone, ops, probe, cron, http>>

(* db.find('user_foods.json', { userId: user.id }) has answered the rule   *)
(* (with [] when the read failed): the totals are computed and             *)
(* sendNotificationToUser is called. failures is history.                  *)
RuleMetricsRead(r, ok) ==
    /\ r \in DOMAIN rules
    /\ rules[r].pc = "metrics"
    /\ LET rec == [rules[r] EXCEPT !.failures = IF ok THEN @ ELSE @ \cup {rules[r].k}]
       IN  RuleStepped(r, IF ReadThrows(ok) THEN RuleCaught(rec)
                          ELSE Dispatch(rec, rec.k, started + 1))
    /\ event' = NoEvent
    /\ UNCHANGED <<subscriptions, snapshotFile, pendingWrites, loadPending, usersFile,
                   logsFile, bulk, gone, ops, probe, cron, http>>

(* NotificationScheduler.stop(): task.stop() for every task in this.tasks, *)
(* then this.tasks.clear()                                                 *)
stop ==
    /\ cron.up
    /\ cron' = [cron EXCEPT !.scheduled = @ \ cron.tasks, !.tasks = {}, !.stopped = TRUE]
    /\ event' = [NoEvent EXCEPT !.op = "stop"]
    /\ UNCHANGED <<subscriptions, snapshotFile, pendingWrites, loadPending, usersFile,
                   logsFile, sends, started, bulk, gone, ops, probe, rules, http>>

(* The process ends: the files stay, everything in memory and in flight is *)
(* gone, no task is left to run                                            *)
Stop ==
    /\ cron.up
    /\ ops < MaxOps
    /\ ops' = ops + 1
    /\ cron' = [cron EXCEPT !.up = FALSE]
    /\ subscriptions' = <<>>
    /\ pendingWrites' = <<>>
    /\ loadPending' = FALSE
    /\ sends' = <<>>
    /\ bulk' = IF bulk.pc = "await" THEN [bulk EXCEPT !.pc = "dead", !.cur = 0] ELSE bulk
    /\ gone' = {}
    /\ snapshotFile' = [snapshotFile EXCEPT !.run = "earlier"]
    /\ rules' = Killed(rules)
    /\ event' = NoEvent
    /\ UNCHANGED <<usersFile, logsFile, started, probe, http>>

(* The process is started: new NotificationScheduler() schedules the       *)
(* tasks, module load calls loadSubscriptions                              *)
Start ==
    /\ ~cron.up
    /\ cron' = [cron EXCEPT !.up = TRUE, !.scheduled = RuleNames, !.tasks = {},
                             !.stopped = FALSE]
    /\ loadPending' = TRUE
    /\ rules' = rules \o Firings(Backfill(cron.missed), <<>>)
    /\ event' = NoEvent
    /\ UNCHANGED <<subscriptions, snapshotFile, pendingWrites, usersFile, logsFile, sends,
                   started, bulk, gone, ops, probe, http>>

----------------------------------------------------------------------------
(* NotificationController.sendCalorieAchievement *)

(* A number of the request body: <<>> when the field is absent, <<n>> an   *)
(* integer, <<n, d>> the fraction n / d with d > 0. !x of a number.        *)
FalsyNumber(x) == x = <<>> \/ x[1] = 0

(* !userId: absent, or the number 0 (the string "0" is not falsy) *)
FalsyId(userId) == userId = <<>> \/ userId = Num(0)

(* caloriesConsumed / calorieGoal * 100 *)
Ratio(caloriesConsumed, calorieGoal) ==
    IF calorieGoal[1] > 0 THEN <<caloriesConsumed[1] * 100, calorieGoal[1]>>
    ELSE <<0 - caloriesConsumed[1] * 100, 0 - calorieGoal[1]>>

(* percentage || (caloriesConsumed / calorieGoal * 100) *)
percentageCalc(caloriesConsumed, calorieGoal, percentage) ==
    IF FalsyNumber(percentage) THEN Ratio(caloriesConsumed, calorieGoal)
    ELSE IF Len(percentage) = 1 THEN <<percentage[1], 1>>
    ELSE percentage

(* Math.round: floor(x + 0.5) *)
MathRound(x) == (2 * x[1] + x[2]) \div (2 * x[2])

(* if (roundedPercentage >= 100) .. else if (>= 75) .. else if (>= 50) .. *)
AchievementTitle(roundedPercentage) ==
    IF roundedPercentage >= 100 THEN "Goal Achieved"
    ELSE IF roundedPercentage >= 75 THEN "Almost There"
    ELSE IF roundedPercentage >= 50 THEN "Halfway There"
    ELSE "Calorie Update"

(* The handler up to await notificationScheduler.sendCustomNotification,   *)
(* or its 400                                                              *)
CalorieRequest(userId, caloriesConsumed, calorieGoal, percentage) ==
    /\ http.call = "none"
    /\ LET body == [userId |-> userId, caloriesConsumed |-> caloriesConsumed,
                    calorieGoal |-> calorieGoal, percentage |-> percentage]
           roundedPercentage ==
               MathRound(percentageCalc(caloriesConsumed, calorieGoal, percentage))
       IN  IF FalsyId(userId) \/ FalsyNumber(caloriesConsumed) \/ FalsyNumber(calorieGoal)
           THEN /\ http' = [call |-> "calorie", pc |-> "done", cur |-> 0, status |-> 400,
                            body |-> body, roundedPercentage |-> 0, title |-> ""]
                /\ UNCHANGED <<sends, started>>
           ELSE /\ http' = [call |-> "calorie", pc |-> "await", cur |-> started + 1,
                            status |-> 0, body |-> body,
                            roundedPercentage |-> roundedPercentage,
                            title |-> AchievementTitle(roundedPercentage)]
                /\ sends' = (started + 1 :> NewSend(userId)) @@ sends
                /\ started' = started + 1
    /\ event' = NoEvent
    /\ UNCHANGED <<subscriptions, snapshotFile, pendingWrites, loadPending, usersFile,
                   logsFile, bulk, gone, ops, probe, rules, cron>>

----------------------------------------------------------------------------
(* NotificationController.getHistory *)

(* parseInt(req.query.x) || fallback: an absent parameter parses to NaN,   *)
(* and NaN and 0 are falsy                                                 *)
ParseIntOr(q, fallback) == IF FalsyNumber(q) THEN fallback ELSE q[1]

(* logs.filter(log => log.userId === userId): same type and same value *)
FilterByUser(logs, userId) == SelectSeq(logs, LAMBDA log : log.userId = userId)

(* Array.prototype.sort with (a, b) => new Date(b.sentAt) - new Date(a.sentAt): *)
(* later sentAt first, records of equal sentAt in the order they had           *)
SortNewestFirst(logs) ==
    LET before(j, i) == \/ logs[j].sentAt > logs[i].sentAt
                        \/ logs[j].sentAt = logs[i].sentAt /\ j < i
        pos(i) == 1 + Cardinality({j \in DOMAIN logs : before(j, i)})
    IN  [n \in DOMAIN logs |-> logs[CHOOSE i \in DOMAIN logs : pos(i) = n]]

(* Array.prototype.slice(start, end): negative arguments count from the    *)
(* end, both are clamped to the length                                     *)
Slice(seq, start, end) ==
    LET len == Len(seq)
        clamp(v) == IF v < 0 THEN (IF len + v < 0 THEN 0 ELSE len + v)
                    ELSE IF v > len THEN len ELSE v
        from == clamp(start)
        to == clamp(end)
    IN  [n \in 1..(IF to > from THEN to - from ELSE 0) |-> seq[from + n]]

(* The handler up to await db.readFile('notification_logs.json'): userId   *)
(* is the route parameter, a string                                        *)
HistoryRequest(n, limit, offset) ==
    /\ http.call = "none"
    /\ http' = [call |-> "history", pc |-> "read", userId |-> Str(n),
                query |-> [limit |-> limit, offset |-> offset],
                limit |-> ParseIntOr(limit, 50), offset |-> ParseIntOr(offset, 0),
                readOk |-> FALSE, status |-> 0, total |-> 0, notifications |-> <<>>]
    /\ event' = NoEvent
    /\ UNCHANGED <<subscriptions, snapshotFile, pendingWrites, loadPending, usersFile,
                   logsFile, sends, started, bulk, gone, ops, probe, rules, cron>>

(* db.readFile has answered ([] when the read failed): filter, sort,       *)
(* paginate, res.json. readOk is history.                                  *)
HistoryRead(ok) ==
    /\ http.call = "history"
    /\ http.pc = "read"
    /\ LET logs == IF ok THEN logsFile ELSE <<>>
           userLogs == SortNewestFirst(FilterByUser(logs, http.userId))
           paginatedLogs == Slice(userLogs, http.offset, http.offset + http.limit)
       IN  http' = [http EXCEPT !.pc = "done", !.readOk = ok, !.status = 200,
                                !.total = Len(userLogs),
                                !.notifications = paginatedLogs]
    /\ event' = NoEvent
    /\ UNCHANGED <<subscriptions, snapshotFile, pendingWrites, loadPending, usersFile,
                   logsFile, sends, started, bulk, gone, ops, probe, rules, cron>>

----------------------------------------------------------------------------
(* One evaluation of isInQuietHours *)

NoProbe == [quietHours |-> <<>>, now |-> <<0, 0>>, result |-> FALSE, done |-> TRUE]

(* The process is up, no minute has passed: initScheduler has scheduled a  *)
(* task for every rule and has put none of them in this.tasks, the Map the *)
(* constructor made. seen, missed and stopped are history: per rule, the   *)
(* minutes matching its schedule that passed while the process was up, the *)
(* rules of which one passed while it was down, and whether stop() has     *)
(* returned.                                                               *)
NoCron == [up |-> TRUE, ticks |-> 0, seen |-> [rule \in RuleNames |-> 0], missed |-> {},
           scheduled |-> RuleNames, tasks |-> {}, stopped |-> FALSE]

(* No controller call *)
NoHttp == [call |-> "none"]

EvaluateQuietHours ==
    /\ ~probe.done
    /\ probe' = [probe EXCEPT !.done = TRUE,
                              !.result = isInQuietHours(probe.quietHours,
                                                        currentTime(probe.now))]
    /\ UNCHANGED <<subscriptions, snapshotFile, pendingWrites, loadPending, usersFile,
                   logsFile, sends, started, bulk, gone, event, ops, rules, cron, http>>

----------------------------------------------------------------------------
(* The users of users.json *)

QuietWrap == <<[start |-> <<22, 0>>, end |-> <<7, 0>>]>>
QuietNumbers == <<[start |-> <<22>>, end |-> <<7>>]>>

(* user 1 keeps the quiet hours 22:00 to 07:00, user 2 has no preferences *)
Users == <<[id |-> 1, prefs |-> <<[quietHours |-> QuietWrap, off |-> {}]>>],
           [id |-> 2, prefs |-> <<>>]>>

(* user 2 was given quietHours { start: 22, end: 7 } by updatePreferences *)
UsersMalformed == <<[id |-> 1, prefs |-> <<[quietHours |-> QuietWrap, off |-> {}]>>],
                    [id |-> 2, prefs |-> <<[quietHours |-> QuietNumbers, off |-> {}]>>]>>

(* The clock readings the gate is tried at *)
GateClock == {<<23, 30>>, <<12, 0>>}

----------------------------------------------------------------------------
(* The registry, its snapshot and the sends, from process start *)

(* The snapshots an earlier run of the process may have left: none, or    *)
(* user "1" with one or with two endpoints                                 *)
EarlierFile(list) ==
    [NoFile EXCEPT !.state = "ok", !.data = <<[key |-> Str(1), val |-> list]>>]

EarlierFiles ==
    {NoFile,
     EarlierFile(<<[endpoint |-> "e1", keys |-> "ka"]>>),
     EarlierFile(<<[endpoint |-> "e1", keys |-> "ka"], [endpoint |-> "e2", keys |-> "ka"]>>)}

Init ==
    /\ subscriptions = <<>>
    /\ snapshotFile \in EarlierFiles
    /\ pendingWrites = <<>>
    /\ loadPending = TRUE
    /\ usersFile = Users
    /\ logsFile = <<>>
    /\ sends = <<>>
    /\ started = 0
    /\ bulk = NoBulk
    /\ gone = {}
    /\ event = NoEvent
    /\ ops = 0
    /\ probe = NoProbe
    /\ rules = <<>>
    /\ cron = NoCron
    /\ http = NoHttp

Next ==
    \/ \E userId \in Callers, subscription \in Offered : Subscribe(userId, subscription)
    \/ \E userId \in Callers, endpoint \in Endpoints : Unsubscribe(userId, endpoint)
    \/ \E userId \in Callers : UnsubscribeAll(userId)
    \/ \E userId \in Callers : SendStart(userId)
    \/ \E s \in DOMAIN sends, now \in GateClock : SendGate(s, now)
    \/ \E s \in DOMAIN sends, outcome \in Outcomes : PushDone(s, outcome)
    \/ \E s \in DOMAIN sends : LogRead(s)
    \/ \E s \in DOMAIN sends, written \in BOOLEAN : LogWrite(s, written)
    \/ \E i \in 1..Len(pendingWrites), outcome \in {"ok", "fail", "torn"} : WriteDone(i, outcome)
    \/ LoadSubscriptions
    \/ Restart

Spec == Init /\ [][Next]_vars

----------------------------------------------------------------------------
(* One sendBulkNotification call over a registry that is already loaded *)

BulkCallers == {Num(1), Num(2), Str(2)}

BulkLists == UNION {[1..n -> BulkCallers] : n \in 0..MaxBulk}

BulkRegistry ==
    <<[key |-> Num(1), val |-> <<[endpoint |-> "e1", keys |-> "ka"]>>],
      [key |-> Num(2), val |-> <<[endpoint |-> "e1", keys |-> "ka"]>>],
      [key |-> Str(2), val |-> <<[endpoint |-> "e1", keys |-> "ka"],
                                 [endpoint |-> "e2", keys |-> "kb"]>>]>>

InitBulk ==
    /\ subscriptions = BulkRegistry
    /\ snapshotFile = [NoFile EXCEPT !.state = "ok", !.data = ObjectFromEntries(BulkRegistry)]
    /\ pendingWrites = <<>>
    /\ loadPending = FALSE
    /\ usersFile = UsersMalformed
    /\ logsFile = <<>>
    /\ sends = <<>>
    /\ started = 0
    /\ bulk = NoBulk
    /\ gone = {}
    /\ event = NoEvent
    /\ ops = 0
    /\ probe = NoProbe
    /\ rules = <<>>
    /\ cron = NoCron
    /\ http = NoHttp

NextBulk ==
    \/ \E userIds \in BulkLists : BulkStart(userIds)
    \/ \E s \in DOMAIN sends, now \in GateClock : SendGate(s, now)
    \/ \E s \in DOMAIN sends, outcome \in Outcomes : PushDone(s, outcome)
    \/ \E s \in DOMAIN sends : LogRead(s)
    \/ \E s \in DOMAIN sends, written \in BOOLEAN : LogWrite(s, written)
    \/ \E i \in 1..Len(pendingWrites), outcome \in {"ok", "fail"} : WriteDone(i, outcome)

SpecBulk == InitBulk /\ [][NextBulk]_vars

----------------------------------------------------------------------------
(* isInQuietHours over windows and clock readings *)

SampleHours == {0, 7, 8, 12, 20, 21, 22, 23}
SampleMinutes == {0, 30}
TimeStrings == {<<h, m>> : h \in SampleHours, m \in SampleMinutes}

Windows ==
    {<<>>} \cup {<<[start |-> s, end |-> e]>> : s, e \in TimeStrings \cup {Missing}}

InitQuiet ==
    /\ subscriptions = <<>>
    /\ snapshotFile = NoFile
    /\ pendingWrites = <<>>
    /\ loadPending = FALSE
    /\ usersFile = Users
    /\ logsFile = <<>>
    /\ sends = <<>>
    /\ started = 0
    /\ bulk = NoBulk
    /\ gone = {}
    /\ event = NoEvent
    /\ ops = 0
    /\ probe \in [quietHours : Windows, now : TimeStrings, result : {FALSE}, done : {FALSE}]
    /\ rules = <<>>
    /\ cron = NoCron
    /\ http = NoHttp

NextQuiet == EvaluateQuietHours

SpecQuiet == InitQuiet /\ [][NextQuiet]_vars

----------------------------------------------------------------------------
(* The clock, the rules and their sends *)

(* user 1 declined the meal reminders and was given quietHours             *)
(* { start: 22, end: 7 }; user 2 has no preferences                        *)
TickUsers ==
    <<[id |-> 1, prefs |-> <<[quietHours |-> QuietNumbers, off |-> {"mealReminders"}]>>],
      [id |-> 2, prefs |-> <<>>]>>

TickRegistry == <<[key |-> Num(2), val |-> <<[endpoint |-> "e1", keys |-> "ka"]>>]>>

(* Sunday 19:00 (water, weekly summary, tip), Monday 19:00 (water, tip),   *)
(* Monday 08:00 (morning), Monday 20:00 (evening summary), Monday 08:30    *)
(* (no rule)                                                               *)
TickTimes == {<<0, 19, 0>>, <<1, 19, 0>>, <<1, 8, 0>>, <<1, 20, 0>>, <<1, 8, 30>>}

InitTick ==
    /\ subscriptions = TickRegistry
    /\ snapshotFile = [NoFile EXCEPT !.state = "ok", !.data = ObjectFromEntries(TickRegistry)]
    /\ pendingWrites = <<>>
    /\ loadPending = FALSE
    /\ usersFile = TickUsers
    /\ logsFile = <<>>
    /\ sends = <<>>
    /\ started = 0
    /\ bulk = NoBulk
    /\ gone = {}
    /\ event = NoEvent
    /\ ops = 0
    /\ probe = NoProbe
    /\ rules = <<>>
    /\ cron = NoCron
    /\ http = NoHttp

NextTick ==
    \/ \E now \in TickTimes : Tick(now)
    \/ \E r \in DOMAIN rules, ok \in BOOLEAN : RuleUsersRead(r, ok)
    \/ \E r \in DOMAIN rules, ok \in BOOLEAN : RuleMetricsRead(r, ok)
    \/ \E s \in DOMAIN sends : SendGate(s, <<12, 0>>)
    \/ \E s \in DOMAIN sends, outcome \in {"ok", "error"} : PushDone(s, outcome)
    \/ \E s \in DOMAIN sends : LogRead(s)
    \/ \E s \in DOMAIN sends, written \in BOOLEAN : LogWrite(s, written)
    \/ LoadSubscriptions
    \/ Stop
    \/ Start

SpecTick == InitTick /\ [][NextTick]_vars

----------------------------------------------------------------------------
(* POST /send-calorie-achievement: one request and its send *)

CalorieIds == {<<>>, Num(1), Num(2), Str(2)}
CalorieConsumed == {<<>>, <<0>>, <<600>>, <<1490>>, <<2000>>}
CalorieGoals == {<<>>, <<0>>, <<2000>>}

(* absent, 0, 49, 49.5, 74.4, 74.9, 99.5, 100, 120 *)
Percentages == {<<>>, <<0>>, <<49>>, <<99, 2>>, <<744, 10>>, <<749, 10>>, <<199, 2>>,
                <<100>>, <<120>>}

InitCalorie ==
    /\ subscriptions = TickRegistry
    /\ snapshotFile = [NoFile EXCEPT !.state = "ok", !.data = ObjectFromEntries(TickRegistry)]
    /\ pendingWrites = <<>>
    /\ loadPending = FALSE
    /\ usersFile = TickUsers
    /\ logsFile = <<>>
    /\ sends = <<>>
    /\ started = 0
    /\ bulk = NoBulk
    /\ gone = {}
    /\ event = NoEvent
    /\ ops = 0
    /\ probe = NoProbe
    /\ rules = <<>>
    /\ cron = NoCron
    /\ http = NoHttp

NextCalorie ==
    \/ \E userId \in CalorieIds, caloriesConsumed \in CalorieConsumed,
          calorieGoal \in CalorieGoals, percentage \in Percentages :
           CalorieRequest(userId, caloriesConsumed, calorieGoal, percentage)
    \/ \E s \in DOMAIN sends : SendGate(s, <<12, 0>>)
    \/ \E s \in DOMAIN sends, outcome \in {"ok", "error"} : PushDone(s, outcome)
    \/ \E s \in DOMAIN sends : LogRead(s)
    \/ \E s \in DOMAIN sends, written \in BOOLEAN : LogWrite(s, written)

SpecCalorie == InitCalorie /\ [][NextCalorie]_vars

----------------------------------------------------------------------------
(* GET /history/:userId over a log that earlier sends have written *)

(* The userId of a record is what the caller of sendNotificationToUser     *)
(* gave: the number user.id from a rule firing, the number or the string   *)
(* of a request body                                                       *)
HistoryIds == {Num(1), Str(1), Num(2)}

(* sentAt of a record, as a time; two sends may end in the same millisecond *)
SentTimes == {1, 2}

(* The logs of up to MaxLogs records, record i written by send i; the      *)
(* order in the file is the order of the writes, not of sentAt             *)
HistoryLogs ==
    UNION {[1..len -> [userId : HistoryIds, send : {0}, kind : {"delivery"},
                       sent : {0}, failed : {0}, sentAt : SentTimes]]
           : len \in 0..MaxLogs}

HistoryQueries == {<<>>, <<0>>, <<1>>, <<2>>}

InitHistory ==
    /\ subscriptions = <<>>
    /\ snapshotFile = NoFile
    /\ pendingWrites = <<>>
    /\ loadPending = FALSE
    /\ usersFile = TickUsers
    /\ \E logs \in HistoryLogs : logsFile = [i \in DOMAIN logs |-> [logs[i] EXCEPT !.send = i]]
    /\ sends = <<>>
    /\ started = 0
    /\ bulk = NoBulk
    /\ gone = {}
    /\ event = NoEvent
    /\ ops = 0
    /\ probe = NoProbe
    /\ rules = <<>>
    /\ cron = NoCron
    /\ http = NoHttp

NextHistory ==
    \/ \E n \in UserIds, limit \in HistoryQueries, offset \in HistoryQueries \ {<<2>>} :
           HistoryRequest(n, limit, offset)
    \/ \E ok \in BOOLEAN : HistoryRead(ok)

SpecHistory == InitHistory /\ [][NextHistory]_vars

----------------------------------------------------------------------------
(* The scheduler with calls of stop() *)

NextStop ==
    \/ \E now \in TickTimes : Tick(now)
    \/ stop
    \/ \E r \in DOMAIN rules, ok \in BOOLEAN : RuleUsersRead(r, ok)
    \/ \E r \in DOMAIN rules, ok \in BOOLEAN : RuleMetricsRead(r, ok)
    \/ \E s \in DOMAIN sends : SendGate(s, <<12, 0>>)
    \/ \E s \in DOMAIN sends, outcome \in {"ok", "error"} : PushDone(s, outcome)
    \/ \E s \in DOMAIN sends : LogRead(s)
    \/ \E s \in DOMAIN sends, written \in BOOLEAN : LogWrite(s, written)

SpecStop == InitTick /\ [][NextStop]_vars

----------------------------------------------------------------------------
(* The registry and its snapshot when every fs.writeFile succeeds: the     *)
(* load of the process start has completed                                 *)

InitSave ==
    /\ snapshotFile \in EarlierFiles
    /\ subscriptions = MapFromObject(snapshotFile.data)
    /\ pendingWrites = <<>>
    /\ loadPending = FALSE
    /\ usersFile = Users
    /\ logsFile = <<>>
    /\ sends = <<>>
    /\ started = 0
    /\ bulk = NoBulk
    /\ gone = {}
    /\ event = NoEvent
    /\ ops = 0
    /\ probe = NoProbe
    /\ rules = <<>>
    /\ cron = NoCron
    /\ http = NoHttp

NextSave ==
    \/ \E userId \in Callers, subscription \in Offered : Subscribe(userId, subscription)
    \/ \E userId \in Callers, endpoint \in Endpoints : Unsubscribe(userId, endpoint)
    \/ \E userId \in Callers : UnsubscribeAll(userId)
    \/ \E userId \in Callers : SendStart(userId)
    \/ \E s \in DOMAIN sends : SendGate(s, <<12, 0>>)
    \/ \E s \in DOMAIN sends, outcome \in {"ok", "gone"} : PushDone(s, outcome)
    \/ \E s \in DOMAIN sends : LogRead(s)
    \/ \E s \in DOMAIN sends : LogWrite(s, TRUE)
    \/ \E i \in 1..Len(pendingWrites) : WriteDone(i, "ok")

SpecSave == InitSave /\ [][NextSave]_vars

----------------------------------------------------------------------------
(* Firings and sends that run to their end: every pending push, file read  *)
(* and file write answers; ticks, sends and subscribeUser calls come as    *)
(* they please                                                             *)

LiveTimes == {<<1, 20, 0>>}

(* the user of TickRegistry offers a second endpoint, or the first again *)
LiveOffered == {[endpoint |-> "e2", keys |-> "ka"], [endpoint |-> "e1", keys |-> "ka"]}

SendStep ==
    \/ \E s \in DOMAIN sends : SendGate(s, <<12, 0>>)
    \/ \E s \in DOMAIN sends, outcome \in Outcomes : PushDone(s, outcome)
    \/ \E s \in DOMAIN sends : LogRead(s)
    \/ \E s \in DOMAIN sends, written \in BOOLEAN : LogWrite(s, written)

FileStep ==
    \/ \E r \in DOMAIN rules, ok \in BOOLEAN : RuleUsersRead(r, ok)
    \/ \E r \in DOMAIN rules, ok \in BOOLEAN : RuleMetricsRead(r, ok)
    \/ \E i \in 1..Len(pendingWrites), outcome \in {"ok", "fail", "torn"} : WriteDone(i, outcome)

NextLive ==
    \/ \E now \in LiveTimes : Tick(now)
    \/ \E subscription \in LiveOffered : Subscribe(Num(2), subscription)
    \/ SendStep
    \/ FileStep

(* The process has been up for minutes in which no rule matched; one more  *)
(* minute is to pass                                                       *)
InitLive ==
    /\ subscriptions = TickRegistry
    /\ snapshotFile = [NoFile EXCEPT !.state = "ok", !.data = ObjectFromEntries(TickRegistry)]
    /\ pendingWrites = <<>>
    /\ loadPending = FALSE
    /\ usersFile = TickUsers
    /\ logsFile = <<>>
    /\ sends = <<>>
    /\ started = 0
    /\ bulk = NoBulk
    /\ gone = {}
    /\ event = NoEvent
    /\ ops = 0
    /\ probe = NoProbe
    /\ rules = <<>>
    /\ cron = [NoCron EXCEPT !.ticks = MaxTicks - 1]
    /\ http = NoHttp

SpecLive == InitLive /\ [][NextLive]_vars /\ WF_vars(SendStep) /\ WF_vars(FileStep)

----------------------------------------------------------------------------
(* Properties of the registry, the gate and the sends *)

(* The list without endpoint e, the rest in its order *)
RECURSIVE WithoutEndpoint(_, _)
WithoutEndpoint(list, e) ==
    IF list = <<>> THEN <<>>
    ELSE IF Head(list).endpoint = e THEN WithoutEndpoint(Tail(list), e)
    ELSE <<Head(list)>> \o WithoutEndpoint(Tail(list), e)

(* The last step was the gate of a send, taken inside the user's window *)
GatedStep ==
    /\ event.op = "gate"
    /\ ~QuietHoursThrows(GateWindow(usersFile, event.user))
    /\ isInQuietHours(GateWindow(usersFile, event.user), currentTime(event.now))

RecordsOf(s, kind) ==
    {i \in 1..Len(logsFile) : logsFile[i].send = s /\ logsFile[i].kind = kind}

(* C1: a send that passed the gate and has finished its fan-out has made   *)
(* exactly K delivery attempts, K being the number of endpoints the user   *)
(* had when the fan-out began, whatever has interleaved with it.           *)
C1_SendIssuesKAttempts ==
    \A s \in DOMAIN sends :
        sends[s].pc \in {"logRead", "logWrite"} => Len(sends[s].tried) = sends[s].K

(* C2, as stated: a send whose gate is active makes no delivery attempt    *)
(* and leaves exactly one "skipped-quiet-hours" record in the audit log.   *)
C2_QuietHoursSkippedRecord ==
    GatedStep =>
        /\ event.send \notin DOMAIN sends
        /\ Cardinality(RecordsOf(event.send, "skipped-quiet-hours")) = 1

(* C2, as the code has it: a send whose gate is active returns at once,    *)
(* having made no delivery attempt, and appends no record of any kind to   *)
(* the audit log.                                                          *)
C2_QuietHoursNoAttemptNoRecord ==
    GatedStep =>
        /\ event.send \notin DOMAIN sends
        /\ \A i \in 1..Len(logsFile) : logsFile[i].send # event.send

(* a gated send of a user who has endpoints registered *)
C2_Witness ==
    /\ GatedStep
    /\ event.result
    /\ Len(getSubscriptions(subscriptions, event.user)) > 0

(* C3: an endpoint E of user U that was answered 410 is absent from        *)
(* List(U) until E is subscribed again.                                    *)
C3_GoneStaysAbsent ==
    \A p \in gone : ~HasEndpoint(getSubscriptions(subscriptions, p[1]), p[2])

C5_SubscribeIdempotent ==
    [][(/\ event'.op = "subscribe"
        /\ HasEndpoint(getSubscriptions(subscriptions, event'.user), event'.endpoint)) =>
            /\ event'.result = FALSE
            /\ subscriptions' = subscriptions]_vars

(* a second subscribe of an endpoint this run subscribed, with other key   *)
(* material, was declined                                                  *)
C5_Witness ==
    /\ event.op = "subscribe"
    /\ ~event.result
    /\ \E i \in 1..Len(getSubscriptions(subscriptions, event.user)) :
            LET sub == getSubscriptions(subscriptions, event.user)[i]
            IN  sub.endpoint = event.endpoint /\ sub.keys # event.keys
    /\ \/ \E i \in 1..Len(pendingWrites) :
                /\ pendingWrites[i].op = "subscribe"
                /\ pendingWrites[i].user = event.user
                /\ HasEndpoint(pendingWrites[i].list, event.endpoint)
       \/ /\ snapshotFile.run = "this"
          /\ snapshotFile.op = "subscribe"
          /\ snapshotFile.user = event.user
          /\ HasEndpoint(snapshotFile.list, event.endpoint)

(* C6: no list of the registry holds two entries with the same endpoint.   *)
C6_UniqueEndpoints ==
    \A n \in 1..Len(subscriptions) :
        \A i, j \in 1..Len(subscriptions[n].val) :
            i # j => subscriptions[n].val[i].endpoint # subscriptions[n].val[j].endpoint

(* a reloaded list of two endpoints on which a subscribe was declined *)
C6_Witness ==
    /\ ~loadPending
    /\ event.op = "subscribe"
    /\ ~event.result
    /\ Len(getSubscriptions(subscriptions, event.user)) >= 2

(* C7: a finished bulk send has total = length of the list, lists in       *)
(* errors exactly the userIds whose send failed, counts them in failed and *)
(* counts the others as sent.                                              *)
C7_BulkIsolation ==
    bulk.pc = "done" =>
        /\ bulk.total = Len(bulk.userIds)
        /\ bulk.errors = bulk.threw
        /\ bulk.failed = Len(bulk.threw)
        /\ bulk.sent = Len(bulk.userIds) - Len(bulk.threw)

(* C8, as stated: sent and failed of a finished bulk send are the sums of  *)
(* the sent and failed counts of the users' sends.                         *)
C8_BulkSumsDeliveries ==
    bulk.pc = "done" => bulk.sent = bulk.sumSent /\ bulk.failed = bulk.sumFailed

(* C8, as the code has it: sent and failed of a finished bulk send count   *)
(* users, one per sendNotificationToUser call, sent for a call that        *)
(* returned and failed (with an entry in errors) for a call that threw, so *)
(* that sent + failed = total.                                             *)
C8_BulkCountsUsers ==
    bulk.pc = "done" =>
        /\ bulk.sent + bulk.failed = bulk.total
        /\ bulk.failed = Len(bulk.errors)
        /\ bulk.total = Len(bulk.userIds)

(* a finished bulk send over several users whose deliveries do not add up  *)
(* to its sent count, some of them failed                                  *)
C8_Witness ==
    /\ bulk.pc = "done"
    /\ Len(bulk.userIds) >= 2
    /\ bulk.sumSent # bulk.sent
    /\ bulk.sumFailed > 0

(* C9: when the process comes up again over a snapshot that a subscribe of *)
(* the run before wrote, the reload gives the subscriber, under the userId *)
(* it subscribed with, the list the subscribe left.                        *)
C9_RestartDurability ==
    [][(/\ loadPending /\ ~loadPending'
        /\ snapshotFile.state = "ok"
        /\ snapshotFile.run = "earlier"
        /\ snapshotFile.op = "subscribe") =>
            getSubscriptions(subscriptions', snapshotFile.user) = snapshotFile.list]_vars

(* The reference predicate on minutes of the day *)
ReferenceQuietHours(quietHours, T) ==
    IF quietHours = <<>> THEN FALSE
    ELSE IF quietHours[1].start = Missing \/ quietHours[1].end = Missing THEN FALSE
    ELSE LET start == quietHours[1].start[1] * 60 + quietHours[1].start[2]
             end == quietHours[1].end[1] * 60 + quietHours[1].end[2]
         IN  IF start <= end THEN start <= T /\ T <= end ELSE T >= start \/ T <= end

(* C10: isInQuietHours equals the reference predicate: inside [start, end] *)
(* when start <= end, T >= start or T <= end when the window wraps         *)
(* midnight, false when the window, its start or its end is missing.       *)
C10_QuietHoursReference ==
    probe.done =>
        probe.result = ReferenceQuietHours(probe.quietHours, probe.now[1] * 60 + probe.now[2])

(* a window that wraps midnight, evaluated at its very end and found quiet *)
C10_Witness ==
    /\ probe.done
    /\ probe.result
    /\ probe.quietHours # <<>>
    /\ probe.quietHours[1].start # Missing
    /\ probe.quietHours[1].end # Missing
    /\ timeToMinutes(probe.quietHours[1].start) > timeToMinutes(probe.quietHours[1].end)
    /\ currentTime(probe.now) = timeToMinutes(probe.quietHours[1].end)

(* C11, as stated: a send for a user without registered endpoints has      *)
(* left a record in the audit log when it returns, whether or not the      *)
(* quiet-hours gate closed on it.                                          *)
C11_NoEndpointsAlwaysLogged ==
    (/\ event.op = "gate"
     /\ event.send \notin DOMAIN sends
     /\ event.note # "threw"
     /\ getSubscriptions(subscriptions, event.user) = <<>>) =>
        \E i \in 1..Len(logsFile) : logsFile[i].send = event.send

(* C11, as the code has it: a send that passed the gate for a user without *)
(* endpoints makes no delivery attempt, has the outcome sent = 0 and       *)
(* failed = 0, and hands the log one appended record of that outcome.      *)
C11_NoEndpointsStillLogged ==
    \A s \in DOMAIN sends :
        (sends[s].pc \in {"logRead", "logWrite"} /\ sends[s].K = 0) =>
            /\ sends[s].tried = <<>>
            /\ sends[s].sent = 0 /\ sends[s].failed = 0
            /\ sends[s].pc = "logWrite" =>
                  /\ Cardinality({i \in 1..Len(sends[s].logData) :
                                      sends[s].logData[i].send = s}) = 1
                  /\ \A i \in 1..Len(sends[s].logData) :
                        sends[s].logData[i].send = s =>
                            /\ sends[s].logData[i].sent = 0
                            /\ sends[s].logData[i].failed = 0

(* the audit log holds the record of a send to a user who has no endpoint  *)
C11_Witness ==
    \E i \in 1..Len(logsFile) :
        /\ logsFile[i].sent = 0 /\ logsFile[i].failed = 0
        /\ getSubscriptions(subscriptions, logsFile[i].userId) = <<>>
        /\ logsFile[i].send \notin DOMAIN sends

(* C12: unsubscribeUser for an endpoint the user does not have, and        *)
(* unsubscribeAll for a user who has no subscriptions, return false, leave *)
(* every list of the registry as it was and start no snapshot write.       *)
C12_AbsentIsNoOp ==
    [][(\/ /\ event'.op = "unsubscribe"
           /\ ~HasEndpoint(getSubscriptions(subscriptions, event'.user), event'.endpoint)
        \/ /\ event'.op = "unsubscribeAll"
           /\ getSubscriptions(subscriptions, event'.user) = <<>>) =>
            /\ event'.result = FALSE
            /\ \A k \in Keys :
                  getSubscriptions(subscriptions', k) = getSubscriptions(subscriptions, k)
            /\ pendingWrites' = pendingWrites
            /\ snapshotFile' = snapshotFile]_vars

(* C13: when the snapshot write of a registry call fails, the call does    *)
(* not throw, returns true (the registry had changed) and the registry in  *)
(* memory stays as it is.                                                  *)
C13_SaveFailureSwallowed ==
    [][(event'.op \in {"saved", "saveThrew"} /\ event'.note = "fail") =>
            /\ event'.op = "saved"
            /\ event'.result = TRUE
            /\ subscriptions' = subscriptions]_vars

(* a subscribe whose write failed: the list is in memory, no file exists   *)
C13_Witness ==
    /\ event.op = "saved"
    /\ event.note = "fail"
    /\ event.result
    /\ getSubscriptions(subscriptions, event.user) # <<>>
    /\ snapshotFile.state = "missing"

(* C19: a record of notification_logs.json stays in the file in every      *)
(* later state.                                                            *)
C19_AuditLogAppendOnly ==
    [][\A i \in 1..Len(logsFile) : \E j \in 1..Len(logsFile') : logsFile'[j] = logsFile[i]]_vars

(* C20: at no time are two writes of the snapshot file in progress.        *)
C20_SnapshotWritesSerialized == Len(pendingWrites) <= 1

----------------------------------------------------------------------------
(* The scheduled rules *)

(* The steps of a firing for which a dispatch was started *)
DispatchedSteps(rec) == {rec.dispatched[n] : n \in DOMAIN rec.dispatched}

(* The flag is not stored as false: no preferences object, or the flag     *)
(* absent from it, or the flag true                                        *)
NotExplicitlyFalse(user, flag) ==
    \/ user.prefs = <<>>
    \/ flag \notin user.prefs[1].off

(* C14 as stated: when a rule has fired and walked its users, a dispatch   *)
(* was started for a user if and only if the one flag named for the rule   *)
(* (mealReminders for the breakfast rule) is not explicitly false          *)
C14_DispatchIffRuleFlag ==
    \A r \in DOMAIN rules :
        rules[r].pc = "done" =>
            \A i \in DOMAIN rules[r].users :
                (\E k \in DispatchedSteps(rules[r]) : StepUser(rules[r], k) = i)
                    <=> NotExplicitlyFalse(rules[r].users[i], Parts(rules[r].rule)[1].flag)

(* C14: each notification a rule sends is gated by its own flag. A         *)
(* dispatch is started for a user and a notification of the rule only if   *)
(* the flag of that notification is not explicitly false, and a firing     *)
(* that walked its users started one for every such user and notification  *)
(* (the breakfast rule sends the meal reminder under mealReminders and a   *)
(* tip under nutritionTips)                                                *)
C14_DispatchIffPartFlag ==
    \A r \in DOMAIN rules :
        \A k \in Steps(rules[r]) :
            LET user == rules[r].users[StepUser(rules[r], k)]
                flag == Parts(rules[r].rule)[StepPart(rules[r], k)].flag
            IN  /\ k \in DispatchedSteps(rules[r]) => NotExplicitlyFalse(user, flag)
                /\ rules[r].pc = "done" /\ NotExplicitlyFalse(user, flag)
                       => k \in DispatchedSteps(rules[r])

(* A firing has walked its users: it skipped a user whose flag is false,   *)
(* and started a dispatch for a user without preferences and for a user    *)
(* whose preferences do not hold the flag                                  *)
C14_Witness ==
    \E r \in DOMAIN rules :
        /\ rules[r].pc = "done"
        /\ \E k \in Steps(rules[r]) \ DispatchedSteps(rules[r]) :
               Parts(rules[r].rule)[StepPart(rules[r], k)].flag
                   \in rules[r].users[StepUser(rules[r], k)].prefs[1].off
        /\ \E k \in DispatchedSteps(rules[r]) :
               rules[r].users[StepUser(rules[r], k)].prefs = <<>>
        /\ \E k \in DispatchedSteps(rules[r]) :
               rules[r].users[StepUser(rules[r], k)].prefs # <<>>

(* The steps of a firing after step k whose flag is not explicitly false *)
WantedAfter(rec, k) ==
    {n \in Steps(rec) : n > k /\ NotExplicitlyFalse(rec.users[StepUser(rec, n)],
                                                     Parts(rec.rule)[StepPart(rec, n)].flag)}

(* C15: tick isolation. When the read of the metrics or the send for a     *)
(* step of a firing has failed, that firing does not end in its catch      *)
(* block and, once it has walked its users, has started the dispatch of    *)
(* every later eligible step; and no firing of the same tick ends in its   *)
(* catch block or, once it has walked its users, lacks a dispatch          *)
C15_TickIsolation ==
    \A r \in DOMAIN rules :
        \A k \in rules[r].failures :
            /\ rules[r].pc # "caught"
            /\ rules[r].pc = "done" => WantedAfter(rules[r], k) \subseteq DispatchedSteps(rules[r])
            /\ \A q \in DOMAIN rules :
                   rules[q].at = rules[r].at =>
                       /\ rules[q].pc # "caught"
                       /\ rules[q].pc = "done"
                              => WantedAfter(rules[q], 0) \subseteq DispatchedSteps(rules[q])

(* A send of a firing has failed for one user, the firing went on to       *)
(* dispatch for a later user and ended, and another rule fired at the same *)
(* tick has ended too, having dispatched                                   *)
C15_Witness ==
    \E r \in DOMAIN rules :
        /\ rules[r].pc = "done"
        /\ \E k \in rules[r].failures :
               \E n \in DispatchedSteps(rules[r]) :
                   StepUser(rules[r], n) > StepUser(rules[r], k)
        /\ \E q \in DOMAIN rules \ {r} :
               /\ rules[q].at = rules[r].at
               /\ rules[q].pc = "done"
               /\ rules[q].dispatched # <<>>

(* The firings of a rule so far *)
FiringsOf(rule) == {r \in DOMAIN rules : rules[r].rule = rule}

(* C16: no backfill. Every firing of a rule began at a minute that matches *)
(* the rule's expression, and the number of firings of a rule is the       *)
(* number of matching minutes that passed while the process was up: a      *)
(* matching minute that passed while it was down is never made up for      *)
C16_NoBackfill ==
    /\ \A r \in DOMAIN rules :
           /\ rules[r].at # <<>>
           /\ Matches(rules[r].rule, rules[r].at)
    /\ \A rule \in RuleNames : Cardinality(FiringsOf(rule)) = cron.seen[rule]

(* A minute that matches a rule passed while the process was down, the     *)
(* process is up again and the rule has no firing; a rule whose minute     *)
(* passed while the process was up has fired and gone on                   *)
C16_Witness ==
    /\ cron.up
    /\ \E rule \in cron.missed :
           /\ cron.seen[rule] = 0
           /\ FiringsOf(rule) = {}
    /\ \E r \in DOMAIN rules : rules[r].pc \notin {"dead", "readUsers"}

----------------------------------------------------------------------------
(* The calorie achievement *)

(* The tier of a percentage n / d rounded to the nearest integer *)
TierOf(x) ==
    LET p == (2 * x[1] + x[2]) \div (2 * x[2])
    IN  IF p >= 100 THEN "Goal Achieved"
        ELSE IF p >= 75 THEN "Almost There"
        ELSE IF p >= 50 THEN "Halfway There"
        ELSE "Calorie Update"

(* C17: for every accepted request the title is the tier of the supplied   *)
(* percentage, or of caloriesConsumed / calorieGoal * 100 when the request *)
(* supplies none                                                           *)
C17_CalorieTiering ==
    (http.call = "calorie" /\ http.status # 400) =>
        LET body == http.body
            supplied == IF Len(body.percentage) = 1 THEN <<body.percentage[1], 1>>
                        ELSE body.percentage
        IN  http.title = IF body.percentage # <<>> THEN TierOf(supplied)
                         ELSE TierOf(<<body.caloriesConsumed[1] * 100, body.calorieGoal[1]>>)

----------------------------------------------------------------------------
(* The history of a user *)

(* C18: the history answered for user n with a log that was read holds     *)
(* exactly the records appended for user n, whoever appended them, newest  *)
(* first by sentAt, at the positions [offset, offset + limit) of that      *)
(* order (limit 50 and offset 0 when the query gives none)                 *)
C18_HistoryOfUser ==
    (http.call = "history" /\ http.pc = "done" /\ http.readOk) =>
        LET n == http.userId[2]
            limit == IF http.query.limit = <<>> THEN 50 ELSE http.query.limit[1]
            offset == IF http.query.offset = <<>> THEN 0 ELSE http.query.offset[1]
            mine == {i \in DOMAIN logsFile : logsFile[i].userId[2] = n}
            newer(j, i) == \/ logsFile[j].sentAt > logsFile[i].sentAt
                           \/ logsFile[j].sentAt = logsFile[i].sentAt /\ j < i
            rank(i) == Cardinality({j \in mine : newer(j, i)})
            page == {i \in mine : offset <= rank(i) /\ rank(i) < offset + limit}
        IN  /\ Len(http.notifications) = Cardinality(page)
            /\ \A i \in page : http.notifications[rank(i) - offset + 1] = logsFile[i]

----------------------------------------------------------------------------
(* Sends against registry mutations, the load at process start *)

(* C21: whenever a send starts a delivery attempt, the endpoint it         *)
(* attempts is in the registry list of the send's user at that moment      *)
C21_AttemptsOnlyRegistered ==
    [][\A s \in DOMAIN sends \cap DOMAIN sends' :
          Len(sends'[s].tried) > Len(sends[s].tried) =>
              HasEndpoint(getSubscriptions(subscriptions', sends'[s].user),
                          sends'[s].tried[Len(sends'[s].tried)])]_vars

(* C22: the rehydration started at module load never discards a           *)
(* subscription accepted in the running process: every endpoint the        *)
(* registry holds for a user when the load completes (all of them          *)
(* accepted by subscribeUser since the process started) is still held for  *)
(* that user after it                                                      *)
C22_LoadKeepsAccepted ==
    [][(loadPending /\ ~loadPending') =>
          \A i \in 1..Len(subscriptions) :
              \A j \in 1..Len(subscriptions[i].val) :
                  HasEndpoint(getSubscriptions(subscriptions', subscriptions[i].key),
                              subscriptions[i].val[j].endpoint)]_vars

----------------------------------------------------------------------------
(* Ticks against firings that have not returned *)

(* A firing that has begun and not ended: it awaits users.json, the food   *)
(* logs or a send                                                          *)
InProgress(rec) == rec.pc \in {"readUsers", "metrics", "await"}

(* C23: at every minute that passes with the process up, a firing starts   *)
(* for every rule whose expression matches that minute, whatever firings   *)
(* of earlier minutes have not returned                                    *)
C23_TickNeverDelayed ==
    [][(event'.op = "tick" /\ cron.up /\ cron'.ticks = cron.ticks + 1) =>
          \A rule \in RuleNames :
              Matches(rule, event'.now) =>
                  \E r \in DOMAIN rules' \ DOMAIN rules :
                      /\ rules'[r].rule = rule
                      /\ rules'[r].at = event'.now
                      /\ rules'[r].pc = "readUsers"]_vars

(* A firing awaits a send while a firing of a later minute has started *)
C23_Witness ==
    \E r, q \in DOMAIN rules :
        /\ r < q
        /\ rules[r].at # rules[q].at
        /\ rules[r].pc = "await"
        /\ rules[r].cur \in DOMAIN sends
        /\ sends[rules[r].cur].pc = "push"

(* C24: at most one firing of a rule is in progress at any time *)
C24_OneFiringPerRule ==
    \A r, q \in DOMAIN rules :
        (r # q /\ rules[r].rule = rules[q].rule) =>
            ~(InProgress(rules[r]) /\ InProgress(rules[q]))

----------------------------------------------------------------------------
(* Termination *)

(* The calls of sendNotificationToUser the firings of summaries can make:  *)
(* one for each user of each firing                                        *)
MaxSends == Len(TickUsers) * MaxFirings

----------------------------------------------------------------------------
(* Failed deliveries *)

(* The push a send awaited has been answered with a failure other than    *)
(* 410: the send leaves its element without having counted a delivery and  *)
(* without a prune                                                         *)
FailedOtherwise(s) ==
    /\ s \in DOMAIN sends \cap DOMAIN sends'
    /\ sends[s].pc = "push"
    /\ sends'[s].idx # sends[s].idx \/ sends'[s].pc # "push"
    /\ sends'[s].sent = sends[s].sent
    /\ event'.op # "prune"

(* C26: a failure other than 410 is counted in failed with its endpoint,   *)
(* the send goes on to the next element (or returns) and does not attempt  *)
(* the endpoint again, and the registry is left as it was                  *)
C26_FailureCountedNotRetried ==
    [][\A s \in 1..started :
          FailedOtherwise(s) =>
              /\ sends'[s].failed = sends[s].failed + 1
              /\ sends'[s].errors =
                     Append(sends[s].errors, [endpoint |-> sends[s].arr[sends[s].idx].endpoint,
                                              error |-> "error"])
              /\ subscriptions' = subscriptions
              /\ sends'[s].pc = "push" => sends'[s].idx = sends[s].idx + 1
              /\ sends'[s].pc # "push" => sends'[s].pc = "logRead"]_vars

(* A send of a user ended with a failed delivery and no 410, the endpoint  *)
(* is still registered, and a later send of the user attempts it           *)
C26_Witness ==
    /\ gone = {}
    /\ \E i \in 1..Len(logsFile), s \in DOMAIN sends :
           /\ logsFile[i].userId = sends[s].user
           /\ logsFile[i].send < s
           /\ logsFile[i].failed = 1
           /\ logsFile[i].sent = 0
           /\ sends[s].pc = "push"
           /\ sends[s].K = 1
           /\ HasEndpoint(getSubscriptions(subscriptions, sends[s].user),
                          sends[s].tried[Len(sends[s].tried)])

(* The attempts of a send that have been answered: all it started, except *)
(* the one it awaits                                                       *)
Answered(rec) == Len(rec.tried) - (IF rec.pc = "push" THEN 1 ELSE 0)

(* C27: at every moment of a send, sent + failed is the number of its      *)
(* attempts that have been answered, errors holds one {endpoint, error}    *)
(* entry for each failed attempt, of an endpoint the send attempted, and   *)
(* no endpoint is attempted twice                                          *)
C27_OutcomeCountsAttempts ==
    \A s \in DOMAIN sends :
        LET rec == sends[s]
        IN  /\ rec.sent + rec.failed = Answered(rec)
            /\ Len(rec.errors) = rec.failed
            /\ \A i \in 1..Len(rec.errors) :
                   \E j \in 1..Answered(rec) : rec.tried[j] = rec.errors[i].endpoint
            /\ \A i, j \in 1..Len(rec.errors) :
                   rec.errors[i].endpoint = rec.errors[j].endpoint => i = j
            /\ \A i, j \in 1..Len(rec.tried) : rec.tried[i] = rec.tried[j] => i = j

(* A fan-out over two endpoints has returned one delivery and one failure *)
C27_Witness ==
    \E s \in DOMAIN sends :
        /\ sends[s].pc = "logRead"
        /\ Len(sends[s].tried) = 2
        /\ sends[s].sent = 1
        /\ sends[s].failed = 1

----------------------------------------------------------------------------
(* The snapshot against the registry *)

(* C28: once every write of the snapshot that a registry call or a prune   *)
(* started has completed, all of them successfully, the file holds the     *)
(* registry as it is, whatever the order in which the writes completed     *)
C28_SnapshotConverges ==
    (pendingWrites = <<>> /\ snapshotFile.run = "this") =>
        /\ snapshotFile.state = "ok"
        /\ snapshotFile.data = ObjectFromEntries(subscriptions)

----------------------------------------------------------------------------
(* The gate and the form of the user id *)

(* The quiet hours stored for the user an id denotes, as a number or as    *)
(* the string of that number                                               *)
StoredWindow(userId) ==
    LET hits == SelectSeq(usersFile, LAMBDA item : item.id = userId[2])
    IN  IF hits = <<>> THEN <<>>
        ELSE IF hits[1].prefs = <<>> THEN <<>>
        ELSE hits[1].prefs[1].quietHours

(* C29: when the gate of a send has been evaluated at a time inside the    *)
(* quiet hours stored for the user the id denotes, the send has made no    *)
(* delivery attempt, whether the id came as a number or as a string        *)
C29_QuietHoursAnyIdForm ==
    (event.op = "gate" /\ ReferenceQuietHours(StoredWindow(event.user), currentTime(event.now))) =>
        (event.send \in DOMAIN sends => sends[event.send].tried = <<>>)

----------------------------------------------------------------------------
(* stop() *)

(* C30: once stop() has returned, no rule fires at any later minute *)
C30_NoFiringAfterStop ==
    [][cron.stopped => Len(rules') = Len(rules)]_vars

====
